---- MODULE Spec2Model ----
(***************************************************************************)
(* Model of the crossword CSP solver of                                    *)
(* src/CS50AI_TS/PSET7/crossword/generate.py (class CrosswordCreator).     *)
(*                                                                         *)
(* The specifications share the state:                                     *)
(*   Spec     main(): construct a CrosswordCreator and run solve()         *)
(*            (enforce_node_consistency, ac3(), backtrack({})).            *)
(*   SpecOps  a client that, after enforce_node_consistency(), calls the   *)
(*            operations revise(x, y), ac3() and ac3(arcs) directly, in    *)
(*            any order.                                                   *)
(*   SpecAc3  a client that calls ac3() or ac3(arcs) once, with the        *)
(*            fairness of a running program: for termination.              *)
(*   SpecConsistent  a client that calls consistent on dicts of its own.   *)
(*   SpecFair  Spec with the fairness of a running search: for the         *)
(*            termination of backtrack.                                    *)
(*   SpecTwice  main() run again and again on the same structure and word  *)
(*            list: for the comparison of the results of two runs.         *)
(*                                                                         *)
(* Python indexes from 0, TLA+ sequences from 1: an overlap (i, j) of the  *)
(* code is the pair <<i + 1, j + 1>> here.  Python sets have no specified  *)
(* iteration order: wherever the code iterates a set and the order can be  *)
(* observed, the model takes any order.                                    *)
(***************************************************************************)
EXTENDS Integers, Sequences, FiniteSets, TLC

VARIABLES
    crossword,   \* self.crossword: [variables, words], read-only after construction
    domains,     \* self.domains: Variable -> set of words
    pc,          \* position of the running program
    caller,      \* who called ac3: "solve" or "client"
    queue,       \* the worklist of the running or last ac3 call (the list `arcs`)
    assignment,  \* the one dict object that backtrack mutates
    stack,       \* the active backtrack calls that are inside their for loop
    retval,      \* value returned by the last finished backtrack call
    result,      \* value returned by solve()
    last         \* the last call of revise or ac3: arguments and returned value

vars == <<crossword, domains, pc, caller, queue, assignment, stack, retval,
          result, last>>

----------------------------------------------------------------------------
(* Bounds of the inputs *)

MaxWords == 4           \* most words in the word list
MaxArcs == 2            \* longest caller-supplied arc list

\* The words a word list is drawn from: every word of two letters over a and
\* b, and four words of three letters, one of which ends in a letter that no
\* word starts with.
Dictionary ==
    { <<"a", "a">>, <<"a", "b">>, <<"b", "a">>, <<"b", "b">>,
      <<"a", "a", "c">>, <<"b", "a", "a">>, <<"a", "b", "b">>, <<"b", "b", "a">> }

WordLists == {ws \in SUBSET Dictionary : Cardinality(ws) <= MaxWords}

ACROSS == "across"
DOWN == "down"

Var(i, j, direction, length) ==
    [i |-> i, j |-> j, direction |-> direction, length |-> length]

\* The puzzle structures: no slot; one slot; two slots of one length, the
\* down slot starting at the last cell of the across slot, so that a word
\* can fit one slot and not the other; two crossing slots of different
\* lengths; one across slot crossed at both ends by two down slots that do
\* not touch each other.
Structures ==
    { {},
      {Var(0, 0, ACROSS, 2)},
      {Var(0, 0, ACROSS, 2), Var(0, 1, DOWN, 2)},
      {Var(0, 0, ACROSS, 3), Var(0, 1, DOWN, 2)},
      {Var(0, 0, ACROSS, 3), Var(0, 0, DOWN, 2), Var(0, 2, DOWN, 2)} }

----------------------------------------------------------------------------
(* Generic helpers *)

Range(s) == {s[k] : k \in DOMAIN s}

\* All orders in which a set can be iterated.
RECURSIVE Orders(_)
Orders(S) ==
    IF S = {} THEN {<<>>}
    ELSE UNION {{<<e>> \o rest : rest \in Orders(S \ {e})} : e \in S}

\* Python's `None` and booleans as returned values.
None == <<>>

----------------------------------------------------------------------------
(* The puzzle structure (crossword.py: Variable, Crossword) *)

\* Variable.cells[k]: the k-th grid cell a slot covers.
Cell(v, k) ==
    <<v.i + (IF v.direction = DOWN THEN k - 1 ELSE 0),
      v.j + (IF v.direction = ACROSS THEN k - 1 ELSE 0)>>

\* Crossword.overlaps.get((x, y)): None when x = y or the slots share no
\* cell, otherwise the indexes, in x and in y, of a cell they share.
Overlaps(x, y) ==
    IF x = y THEN None
    ELSE IF \A p \in 1..x.length, q \in 1..y.length : Cell(x, p) # Cell(y, q)
    THEN None
    ELSE CHOOSE o \in (1..x.length) \X (1..y.length) :
             Cell(x, o[1]) = Cell(y, o[2])

\* Crossword.neighbors(var)
Neighbors(var) ==
    {v \in crossword.variables : v # var /\ Overlaps(v, var) # None}

----------------------------------------------------------------------------
(* Values a Python call returns *)

PyNone == [kind |-> "None"]
PyDict(a) == [kind |-> "dict", value |-> a]
Pending == [kind |-> "pending"]

\* Truth value of `if result:` -- None and the empty dict are false.
Truthy(r) == r.kind = "dict" /\ DOMAIN r.value # {}

EmptyAssignment == [v \in {} |-> <<>>]

\* assignment[var] = value
Assign(a, var, value) ==
    [v \in DOMAIN a \cup {var} |-> IF v = var THEN value ELSE a[v]]

\* A variant of Pop that leaves the entry in place.
PopNothing(a, var) == a

\* assignment.pop(var)
Pop(a, var) == [v \in DOMAIN a \ {var} |-> a[v]]

----------------------------------------------------------------------------
(* CrosswordCreator: the operations on domains *)

\* __init__: every variable starts with a copy of the whole word list.
InitialDomains(cw) == [v \in cw.variables |-> cw.words]

\* A variant of NodeConsistent that removes nothing.
NodeConsistentKeepsAll(d) == d

\* A variant of NodeConsistent that also keeps the shorter words.
NodeConsistentAtMost(d) ==
    [v \in DOMAIN d |-> {word \in d[v] : Len(word) <= v.length}]

\* enforce_node_consistency: keep the words of the variable's length.
NodeConsistent(d) ==
    [v \in DOMAIN d |-> {word \in d[v] : Len(word) = v.length}]

\* A variant of Supported that reads each word at the other word's index.
SupportedSwapped(d, x, y, word_x) ==
    LET overlap == Overlaps(x, y)
    IN  \E word_y \in d[y] :
            /\ overlap[2] <= Len(word_x)
            /\ overlap[1] <= Len(word_y)
            /\ word_x[overlap[2]] = word_y[overlap[1]]

\* The test of revise's loop, `any(word_x[i] == word_y[j] for word_y in ...)`:
\* word_x has a word_y in y's domain that agrees with it at the overlap.
Supported(d, x, y, word_x) ==
    LET overlap == Overlaps(x, y)
    IN  \E word_y \in d[y] :
            /\ overlap[1] <= Len(word_x)
            /\ overlap[2] <= Len(word_y)
            /\ word_x[overlap[1]] = word_y[overlap[2]]

\* revise(x, y) can raise IndexError: it reads word_x[i] and word_y[j] of a
\* word that is too short (only the test against an empty domain reads
\* nothing).
ReviseRaises(d, x, y) ==
    LET overlap == Overlaps(x, y)
    IN  /\ overlap # None
        /\ d[x] # {}
        /\ d[y] # {}
        /\ \/ \E word_x \in d[x] : Len(word_x) < overlap[1]
           \/ \E word_y \in d[y] : Len(word_y) < overlap[2]

\* revise(x, y) can return: no word of x is too short and, as any() stops at
\* the first match, every word of x is matched before a too short word of y
\* is read, or y has no such word.
ReviseReturns(d, x, y) ==
    LET overlap == Overlaps(x, y)
    IN  \/ overlap = None
        \/ d[x] = {}
        \/ d[y] = {}
        \/ /\ \A word_x \in d[x] : overlap[1] <= Len(word_x)
           /\ \/ \A word_y \in d[y] : overlap[2] <= Len(word_y)
              \/ \A word_x \in d[x] : Supported(d, x, y, word_x)

\* A variant of Revise that, for variables without an overlap, takes an empty
\* domain of y as leaving no word of x supported.
ReviseNeedsSupport(d, x, y) ==
    IF Overlaps(x, y) = None
    THEN [domains |-> IF d[y] = {} THEN [d EXCEPT ![x] = {}] ELSE d,
          revised |-> d[y] = {} /\ d[x] # {}]
    ELSE LET removed == {word_x \in d[x] : ~Supported(d, x, y, word_x)}
         IN  [domains |-> [d EXCEPT ![x] = d[x] \ removed],
              revised |-> removed # {}]

\* revise(x, y) when it returns: the domains after the call and the value
\* returned.
Revise(d, x, y) ==
    IF Overlaps(x, y) = None
    THEN [domains |-> d, revised |-> FALSE]
    ELSE LET removed == {word_x \in d[x] : ~Supported(d, x, y, word_x)}
         IN  [domains |-> [d EXCEPT ![x] = d[x] \ removed],
              revised |-> removed # {}]

\* What a call revise(x, y) can do.
ReviseOutcomes(d, x, y) ==
    {o \in {"return", "IndexError"} :
        IF o = "return" THEN ReviseReturns(d, x, y) ELSE ReviseRaises(d, x, y)}

\* The arcs of `ac3(arcs=None)`, as a set.
AllArcs == {a \in crossword.variables \X crossword.variables : a[2] \in Neighbors(a[1])}

\* [(x, y) for x in `order` for y in neighbors(x)], the neighbours of each x
\* iterated in any order.
RECURSIVE ArcsInOrder(_)
ArcsInOrder(order) ==
    IF order = <<>> THEN {<<>>}
    ELSE LET x == Head(order)
         IN  {[k \in DOMAIN ys |-> <<x, ys[k]>>] \o rest :
                 ys \in Orders(Neighbors(x)), rest \in ArcsInOrder(Tail(order))}

\* [(x, y) for x in self.crossword.variables for y in neighbors(x)]: the set
\* of variables is iterated in any order.
DefaultArcs == UNION {ArcsInOrder(order) : order \in Orders(crossword.variables)}

\* A variant of Requeued that appends nothing.
RequeuedNothing(x, y) == {<<>>}

\* A variant of Requeued that appends the arcs in the other direction,
\* (x, neighbor).
RequeuedReversed(x, y) ==
    {[k \in DOMAIN ord |-> <<x, ord[k]>>] : ord \in Orders(Neighbors(x) \ {y})}

\* A variant of Requeued that appends the arc of every neighbour, y included.
RequeuedWithY(x, y) ==
    {[k \in DOMAIN ord |-> <<ord[k], x>>] : ord \in Orders(Neighbors(x))}

\* The arcs appended after revise(x, y) shrank x's domain, in any order of
\* the set neighbors(x) - {y}.
Requeued(x, y) ==
    {[k \in DOMAIN ord |-> <<ord[k], x>>] : ord \in Orders(Neighbors(x) \ {y})}

\* A caller-supplied arc list: any pairs of two variables, overlapping or
\* not, repeated or not.
ArcLists ==
    LET pairs == {a \in crossword.variables \X crossword.variables : a[1] # a[2]}
    IN  UNION {[1..n -> pairs] : n \in 0..MaxArcs}

----------------------------------------------------------------------------
(* CrosswordCreator: the search *)

\* A variant of AssignmentComplete that takes no empty assignment as complete.
AssignmentCompleteNonEmpty(a) ==
    /\ DOMAIN a # {}
    /\ \A var \in crossword.variables : var \in DOMAIN a

\* A variant of AssignmentComplete that is content with one assigned variable.
AssignmentCompleteAny(a) == \E var \in crossword.variables : var \in DOMAIN a

\* assignment_complete
AssignmentComplete(a) == \A var \in crossword.variables : var \in DOMAIN a

\* A variant of NeighborOutcomes that compares no letters.
NeighborOutcomesSkipped(a, var) == {"pass"}

\* consistent, the body of `for neighbor in neighbors(var)` for one var: the
\* neighbours are checked in any order and the first that does not pass
\* decides, by a mismatch (return False) or by an index that the
\* neighbour's word does not have (IndexError).
NeighborOutcomes(a, var) ==
    LET assigned == {n \in Neighbors(var) : n \in DOMAIN a}
        short == {n \in assigned : Len(a[n]) < Overlaps(var, n)[2]}
        differ == {n \in assigned \ short :
                      a[var][Overlaps(var, n)[1]] # a[n][Overlaps(var, n)[2]]}
    IN  IF short = {} /\ differ = {} THEN {"pass"}
        ELSE {o \in {"False", "IndexError"} :
                 IF o = "False" THEN differ # {} ELSE short # {}}

\* A variant of Repeated that finds no word repeated.
RepeatedNever(word, assigned_words) == FALSE

\* consistent: `if word in assigned_words`
Repeated(word, assigned_words) == word \in assigned_words

\* consistent, the loop `for var in self.crossword.variables` from position k
\* of the iteration order `order`, with the words seen so far.
RECURSIVE ConsistentFrom(_, _, _, _)
ConsistentFrom(a, order, k, assigned_words) ==
    IF k > Len(order) THEN {"True"}
    ELSE LET var == order[k]
         IN  IF var \notin DOMAIN a
             THEN ConsistentFrom(a, order, k + 1, assigned_words)
             ELSE IF Len(a[var]) # var.length THEN {"False"}
             ELSE LET checks == NeighborOutcomes(a, var)
                  IN  (checks \ {"pass"}) \cup
                      (IF "pass" \notin checks THEN {}
                       ELSE IF Repeated(a[var], assigned_words) THEN {"False"}
                       ELSE ConsistentFrom(a, order, k + 1,
                                           assigned_words \cup {a[var]}))

\* consistent(assignment): what the call can do, over the orders in which the
\* set of variables is iterated.
ConsistentOutcomes(a) ==
    UNION {ConsistentFrom(a, order, 1, {}) : order \in Orders(crossword.variables)}

\* The sort key of order_domain_values: how many neighbours of var still
\* have the word in their domain.
LcvKey(var, word) == Cardinality({n \in Neighbors(var) : word \in domains[n]})

\* A variant of OrderDomainValues that sorts in descending order.
OrderDomainValuesDescending(var) ==
    {s \in Orders(domains[var]) :
        \A a, b \in DOMAIN s : a < b => LcvKey(var, s[a]) >= LcvKey(var, s[b])}

\* order_domain_values: sorted() is stable, so equal keys keep the order in
\* which the set was iterated, which is any order.
OrderDomainValues(var) ==
    {s \in Orders(domains[var]) :
        \A a, b \in DOMAIN s : a < b => LcvKey(var, s[a]) <= LcvKey(var, s[b])}

\* A variant of SelectUnassignedVariable that takes max() for min().
SelectLargestDomain(a) ==
    LET unassigned == crossword.variables \ DOMAIN a
    IN  {var \in unassigned :
            \A other \in unassigned :
                Cardinality(domains[var]) >= Cardinality(domains[other])}

\* A variant of SelectUnassignedVariable that takes any unassigned variable.
SelectAnyUnassigned(a) == crossword.variables \ DOMAIN a

\* A variant of SelectUnassignedVariable that takes a variable with the most
\* neighbours.
SelectHighestDegree(a) ==
    LET unassigned == crossword.variables \ DOMAIN a
    IN  {var \in unassigned :
            \A other \in unassigned :
                Cardinality(Neighbors(var)) >= Cardinality(Neighbors(other))}

\* select_unassigned_variable: min() returns the first minimum of a list
\* built by iterating the set of variables, so any minimum.  The set is
\* empty where min() raises ValueError (no unassigned variable).
SelectUnassignedVariable(a) ==
    LET unassigned == crossword.variables \ DOMAIN a
    IN  {var \in unassigned :
            \A other \in unassigned :
                Cardinality(domains[var]) <= Cardinality(domains[other])}

----------------------------------------------------------------------------
(* Initial states: the object after __init__ *)

Crosswords == [variables : Structures, words : WordLists]

\* `last` records a call: the operation, the arguments of revise, whether ac3
\* built its own arc list, the value returned, and for ac3() the value
\* returned by an ac3() run that ended right before it.
NoCall ==
    [op |-> "none", args |-> <<>>, default |-> FALSE, ret |-> "none",
     prior |-> "none"]

InitFor(who) ==
    /\ crossword \in Crosswords
    /\ domains = InitialDomains(crossword)
    /\ pc = "start"
    /\ caller = who
    /\ queue = <<>>
    /\ assignment = EmptyAssignment
    /\ stack = <<>>
    /\ retval = Pending
    /\ result = Pending
    /\ last = NoCall

\* main(): creator = CrosswordCreator(crossword); creator.solve()
Init == InitFor("solve")

\* A client about to use the operations one by one.
InitOps == InitFor("client")

----------------------------------------------------------------------------
(* enforce_node_consistency, called first by solve() and by the client *)

EnforceNodeConsistency ==
    /\ pc = "start"
    /\ domains' = NodeConsistent(domains)
    /\ pc' = IF caller = "solve" THEN "solve_ac3" ELSE "idle"
    /\ UNCHANGED <<crossword, caller, queue, assignment, stack,
                   retval, result, last>>

----------------------------------------------------------------------------
(* ac3 *)

\* The record of an ac3 call that starts now.
Ac3Call(default) ==
    [op |-> "ac3", args |-> <<>>, default |-> default, ret |-> "running",
     prior |-> IF default /\ last.op = "ac3" /\ last.default THEN last.ret ELSE "none"]

\* A variant of Ac3Return in which the last pop() is not seen in the list that
\* ac3 leaves behind.
Ac3ReturnKeepsList(value, d, q) ==
    /\ domains' = d
    /\ queue' = queue
    /\ last' = [last EXCEPT !.ret = value]
    /\ pc' = IF caller = "solve" THEN "solve_backtrack" ELSE "idle"
    /\ UNCHANGED <<crossword, caller, assignment, stack, retval, result>>

\* ac3 returns `value`, leaving the domains `d` and the worklist `q`.
Ac3Return(value, d, q) ==
    /\ domains' = d
    /\ queue' = q
    /\ last' = [last EXCEPT !.ret = value]
    /\ pc' = IF caller = "solve" THEN "solve_backtrack" ELSE "idle"
    /\ UNCHANGED <<crossword, caller, assignment, stack, retval, result>>

\* solve(): self.ac3()
SolveAc3 ==
    /\ pc = "solve_ac3"
    /\ \E arcs \in DefaultArcs :
          /\ queue' = arcs
          /\ last' = Ac3Call(TRUE)
    /\ pc' = "ac3"
    /\ UNCHANGED <<crossword, domains, caller, assignment, stack,
                   retval, result>>

\* An exception leaves the program; nothing runs after it.
Raise(exception) ==
    /\ pc' = "raised"
    /\ result' = [kind |-> exception]
    /\ UNCHANGED <<crossword, domains, caller, queue, assignment, stack,
                   retval, last>>

\* Variants of Ac3Step: the iteration revises `arc` and leaves `rest` of the
\* worklist, and an emptied domain ends the run only if `stops`.
Ac3StepVariant(arc, rest, stops) ==
    /\ pc = "ac3"
    /\ queue # <<>>
    /\ \E r \in {Revise(domains, arc[1], arc[2])} :
         \E outcome \in ReviseOutcomes(domains, arc[1], arc[2]) :
           LET x == arc[1]
               y == arc[2]
           IN  IF outcome # "return" THEN Raise(outcome)
               ELSE IF stops /\ r.revised /\ r.domains[x] = {}
               THEN Ac3Return("False", r.domains, rest)
               ELSE /\ domains' = r.domains
                    /\ IF r.revised
                       THEN \E more \in Requeued(x, y) : queue' = rest \o more
                       ELSE queue' = rest
                    /\ UNCHANGED <<crossword, pc, caller, assignment, stack,
                                   retval, result, last>>

\* A variant of Ac3Step that goes on after a domain was emptied.
Ac3StepGoesOn == Ac3StepVariant(Head(queue), Tail(queue), FALSE)

\* A variant of Ac3Step that takes the newest arc, queue.pop().
Ac3StepLifo ==
    Ac3StepVariant(queue[Len(queue)], SubSeq(queue, 1, Len(queue) - 1), TRUE)

\* A variant of Ac3Step that reads the first arc and leaves it in the list.
Ac3StepPeeks == Ac3StepVariant(Head(queue), queue, TRUE)

\* A variant of Ac3Step that returns False whenever x's domain is empty after
\* revise, whether or not revise removed anything.
Ac3StepEmptyStops ==
    /\ pc = "ac3"
    /\ queue # <<>>
    /\ \E arc \in {Head(queue)} :
         \E r \in {Revise(domains, arc[1], arc[2])} :
           \E outcome \in ReviseOutcomes(domains, arc[1], arc[2]) :
             LET x == arc[1]
                 y == arc[2]
             IN  IF outcome # "return" THEN Raise(outcome)
                 ELSE IF r.domains[x] = {}
                 THEN Ac3Return("False", r.domains, Tail(queue))
                 ELSE /\ domains' = r.domains
                      /\ IF r.revised
                         THEN \E more \in Requeued(x, y) :
                                  queue' = Tail(queue) \o more
                         ELSE queue' = Tail(queue)
                      /\ UNCHANGED <<crossword, pc, caller, assignment, stack,
                                     retval, result, last>>

\* One iteration of `while queue:`.  The popped arc and the result of the
\* one call of revise are bound once (\E over a singleton).
Ac3Step ==
    /\ pc = "ac3"
    /\ queue # <<>>
    /\ \E arc \in {Head(queue)} :
         \E r \in {Revise(domains, arc[1], arc[2])} :
           \E outcome \in ReviseOutcomes(domains, arc[1], arc[2]) :
             LET x == arc[1]
                 y == arc[2]
             IN  IF outcome # "return" THEN Raise(outcome)
                 ELSE IF r.revised /\ r.domains[x] = {}
                 THEN Ac3Return("False", r.domains, Tail(queue))
                 ELSE /\ domains' = r.domains
                      /\ IF r.revised
                         THEN \E more \in Requeued(x, y) :
                                  queue' = Tail(queue) \o more
                         ELSE queue' = Tail(queue)
                      /\ UNCHANGED <<crossword, pc, caller, assignment, stack,
                                     retval, result, last>>

\* The worklist is empty: return True.
Ac3Exit ==
    /\ pc = "ac3"
    /\ queue = <<>>
    /\ Ac3Return("True", domains, queue)

----------------------------------------------------------------------------
(* backtrack *)

Top == stack[Len(stack)]
ButTop == SubSeq(stack, 1, Len(stack) - 1)

\* solve(): return self.backtrack({})
SolveBacktrack ==
    /\ pc = "solve_backtrack"
    /\ assignment' = EmptyAssignment
    /\ pc' = "bt_enter"
    /\ UNCHANGED <<crossword, domains, caller, queue, stack, retval,
                   result, last>>

\* A call of backtrack begins: return a complete assignment, or choose a
\* variable and the order of its values and enter the for loop.
BtEnter ==
    /\ pc = "bt_enter"
    /\ IF AssignmentComplete(assignment)
       THEN /\ retval' = PyDict(assignment)
            /\ pc' = "bt_return"
            /\ UNCHANGED <<crossword, domains, caller, queue, assignment,
                           stack, result, last>>
       ELSE IF SelectUnassignedVariable(assignment) = {}
       THEN Raise("ValueError")
       ELSE /\ \E var \in SelectUnassignedVariable(assignment) :
                 \E values \in OrderDomainValues(var) :
                     stack' = Append(stack, [var |-> var, values |-> values,
                                             entry |-> assignment])
            /\ pc' = "bt_loop"
            /\ UNCHANGED <<crossword, domains, caller, queue, assignment,
                           retval, result, last>>

\* A variant of BtAssign that also narrows the variable's domain to the value.
BtAssignNarrowing ==
    /\ pc = "bt_loop"
    /\ Top.values # <<>>
    /\ assignment' = Assign(assignment, Top.var, Head(Top.values))
    /\ domains' = [domains EXCEPT ![Top.var] = {Head(Top.values)}]
    /\ stack' = [stack EXCEPT ![Len(stack)].values = Tail(@)]
    /\ pc' = "bt_check"
    /\ UNCHANGED <<crossword, caller, queue, retval, result, last>>

\* A variant of BtAssign that does not advance the iteration over the values.
BtAssignRepeats ==
    /\ pc = "bt_loop"
    /\ Top.values # <<>>
    /\ assignment' = Assign(assignment, Top.var, Head(Top.values))
    /\ pc' = "bt_check"
    /\ UNCHANGED <<crossword, domains, caller, queue, stack, retval, result,
                   last>>

\* for value in ...: assignment[var] = value
BtAssign ==
    /\ pc = "bt_loop"
    /\ Top.values # <<>>
    /\ assignment' = Assign(assignment, Top.var, Head(Top.values))
    /\ stack' = [stack EXCEPT ![Len(stack)].values = Tail(@)]
    /\ pc' = "bt_check"
    /\ UNCHANGED <<crossword, domains, caller, queue, retval, result,
                   last>>

\* if self.consistent(assignment): recurse; otherwise assignment.pop(var)
BtCheck ==
    /\ pc = "bt_check"
    /\ \E outcome \in ConsistentOutcomes(assignment) :
          IF outcome = "IndexError" THEN Raise(outcome)
          ELSE /\ IF outcome = "True"
                  THEN /\ pc' = "bt_enter"
                       /\ UNCHANGED assignment
                  ELSE /\ assignment' = Pop(assignment, Top.var)
                       /\ pc' = "bt_loop"
               /\ UNCHANGED <<crossword, domains, caller, queue, stack,
                              retval, result, last>>

\* The for loop is over: return None.
BtExhausted ==
    /\ pc = "bt_loop"
    /\ Top.values = <<>>
    /\ stack' = ButTop
    /\ retval' = PyNone
    /\ pc' = "bt_return"
    /\ UNCHANGED <<crossword, domains, caller, queue, assignment,
                   result, last>>

\* A variant of BtResume that leaves the tentative entry in place after a
\* failed recursive call.
BtResumeKeeps ==
    /\ pc = "bt_return"
    /\ stack # <<>>
    /\ IF Truthy(retval)
       THEN /\ stack' = ButTop
            /\ UNCHANGED <<assignment, pc>>
       ELSE /\ pc' = "bt_loop"
            /\ UNCHANGED <<assignment, stack>>
    /\ UNCHANGED <<crossword, domains, caller, queue, retval, result,
                   last>>

\* A recursive call returned into the for loop of its caller:
\* `if result: return result`, otherwise assignment.pop(var).
BtResume ==
    /\ pc = "bt_return"
    /\ stack # <<>>
    /\ IF Truthy(retval)
       THEN /\ stack' = ButTop
            /\ UNCHANGED <<assignment, pc>>
       ELSE /\ assignment' = Pop(assignment, Top.var)
            /\ pc' = "bt_loop"
            /\ UNCHANGED stack
    /\ UNCHANGED <<crossword, domains, caller, queue, retval, result,
                   last>>

\* The outermost call returned: solve() returns its value.
SolveReturn ==
    /\ pc = "bt_return"
    /\ stack = <<>>
    /\ result' = retval
    /\ pc' = "done"
    /\ UNCHANGED <<crossword, domains, caller, queue, assignment,
                   stack, retval, last>>

\* main(): `if assignment is None: print("No solution.")`
ReportsNoSolution(r) == r = PyNone

----------------------------------------------------------------------------
(* The client's calls *)

\* creator.revise(x, y) for any two variables
ClientRevise ==
    /\ pc = "idle"
    /\ \E x, y \in crossword.variables :
          \E outcome \in ReviseOutcomes(domains, x, y) :
             IF outcome # "return" THEN Raise(outcome)
             ELSE LET r == Revise(domains, x, y)
                  IN  /\ domains' = r.domains
                      /\ last' = [op |-> "revise", args |-> <<x, y>>,
                                  default |-> FALSE,
                                  ret |-> IF r.revised THEN "True" ELSE "False",
                                  prior |-> "none"]
                      /\ queue' = <<>>
                      /\ UNCHANGED <<crossword, pc, caller, assignment, stack,
                                     retval, result>>

\* creator.ac3()
ClientAc3 ==
    /\ pc = "idle"
    /\ \E arcs \in DefaultArcs :
          /\ queue' = arcs
          /\ last' = Ac3Call(TRUE)
    /\ pc' = "ac3"
    /\ UNCHANGED <<crossword, domains, caller, assignment, stack,
                   retval, result>>

\* creator.ac3(arcs) with a list of the caller
ClientAc3Arcs ==
    /\ pc = "idle"
    /\ \E arcs \in ArcLists :
          /\ queue' = arcs
          /\ last' = Ac3Call(FALSE)
    /\ pc' = "ac3"
    /\ UNCHANGED <<crossword, domains, caller, assignment, stack,
                   retval, result>>

\* The dicts a client can pass to consistent: any words for any of the
\* variables.
PartialAssignments ==
    UNION {[vs -> Dictionary] : vs \in SUBSET crossword.variables}

\* The client builds a dict of its own.
ClientAssignment ==
    /\ pc = "idle"
    /\ assignment' \in PartialAssignments
    /\ last' = [op |-> "consistent", args |-> <<>>, default |-> FALSE,
                ret |-> "running", prior |-> "none"]
    /\ pc' = "consistent"
    /\ UNCHANGED <<crossword, domains, caller, queue, stack, retval, result>>

\* creator.consistent(assignment); the client keeps the returned value and
\* drops its dict.
ClientConsistent ==
    /\ pc = "consistent"
    /\ \E outcome \in ConsistentOutcomes(assignment) :
          IF outcome = "IndexError" THEN Raise(outcome)
          ELSE /\ last' = [last EXCEPT !.ret = outcome]
               /\ assignment' = EmptyAssignment
               /\ pc' = "idle"
               /\ UNCHANGED <<crossword, domains, caller, queue, stack,
                              retval, result>>

----------------------------------------------------------------------------
(* Specifications *)

Next ==
    \/ EnforceNodeConsistency
    \/ SolveAc3
    \/ Ac3Step
    \/ Ac3Exit
    \/ SolveBacktrack
    \/ BtEnter
    \/ BtAssign
    \/ BtCheck
    \/ BtExhausted
    \/ BtResume
    \/ SolveReturn

Spec == Init /\ [][Next]_vars

NextOps ==
    \/ EnforceNodeConsistency
    \/ ClientRevise
    \/ ClientAc3
    \/ ClientAc3Arcs
    \/ Ac3Step
    \/ Ac3Exit

\* main() run once more on the same structure and word list: a new
\* Crossword and a new CrosswordCreator; `result` still shows what the run
\* before it returned.
SolveAgain ==
    /\ pc = "done"
    /\ pc' = "start"
    /\ domains' = InitialDomains(crossword)
    /\ queue' = <<>>
    /\ assignment' = EmptyAssignment
    /\ stack' = <<>>
    /\ retval' = Pending
    /\ last' = NoCall
    /\ UNCHANGED <<crossword, caller, result>>

NextTwice == Next \/ SolveAgain

SpecTwice == Init /\ [][NextTwice]_vars

\* The steps of backtrack and of the return of its result.
Backtrack ==
    BtEnter \/ BtAssign \/ BtCheck \/ BtExhausted \/ BtResume \/ SolveReturn

\* main() with a search that keeps running: once backtrack was called, it
\* takes its next step whenever it has one.
SpecFair == Spec /\ WF_vars(Backtrack)

SpecOps == InitOps /\ [][NextOps]_vars

\* A client that, after enforce_node_consistency(), calls ac3 once: ac3()
\* or ac3(arcs).  The program keeps running while it is inside ac3: the loop
\* takes its next iteration, and returns when the worklist is empty.
NextAc3 ==
    \/ EnforceNodeConsistency
    \/ last.op = "none" /\ ClientAc3
    \/ last.op = "none" /\ ClientAc3Arcs
    \/ Ac3Step
    \/ Ac3Exit

SpecAc3 ==
    /\ InitOps
    /\ [][NextAc3]_vars
    /\ WF_vars(Ac3Step)
    /\ WF_vars(Ac3Exit)

\* A client that calls consistent on dicts of its own.
NextConsistent ==
    \/ EnforceNodeConsistency
    \/ ClientAssignment
    \/ ClientConsistent

SpecConsistent == InitOps /\ [][NextConsistent]_vars

----------------------------------------------------------------------------
(* Notions the properties are stated with *)

\* solve() has returned an assignment.
Returned == pc = "done" /\ result.kind = "dict"

\* The words of the word list that have var's length.
WordsOfLength(var) == {word \in crossword.words : Len(word) = var.length}

\* A complete assignment of word-list words that meets the length, the
\* overlap and the uniqueness constraints.
IsSolution(a) ==
    /\ \A v \in crossword.variables : Len(a[v]) = v.length
    /\ \A x, y \in crossword.variables :
          Overlaps(x, y) # None =>
              /\ Overlaps(x, y)[1] <= Len(a[x])
              /\ Overlaps(x, y)[2] <= Len(a[y])
              /\ a[x][Overlaps(x, y)[1]] = a[y][Overlaps(x, y)[2]]
    /\ \A x, y \in crossword.variables : a[x] = a[y] => x = y

Solutions == {a \in [crossword.variables -> crossword.words] : IsSolution(a)}

HasSolution == Solutions # {}

\* ac3 pruned something and left something: some domain is neither empty nor
\* all the words of the variable's length.
SomeDomainPruned ==
    \E v \in crossword.variables : domains[v] # {} /\ domains[v] # WordsOfLength(v)

\* The positions of the program inside backtrack.
SearchPositions == {"bt_enter", "bt_loop", "bt_check", "bt_return"}

----------------------------------------------------------------------------
(* Properties of solve(), under Spec *)

\* C1: in every assignment that solve() returns, two overlapping variables
\* have the same letter at their overlap: word of x at i equals word of y at j.
C1_OverlapsAgree ==
    Returned =>
        \A x, y \in DOMAIN result.value :
            Overlaps(x, y) # None =>
                /\ Overlaps(x, y)[1] <= Len(result.value[x])
                /\ Overlaps(x, y)[2] <= Len(result.value[y])
                /\ result.value[x][Overlaps(x, y)[1]] = result.value[y][Overlaps(x, y)[2]]

\* An assignment was returned for the three-slot puzzle, where the across
\* word had to agree with both down words.
C1_Witness ==
    /\ Returned
    /\ Cardinality(DOMAIN result.value) = 3
    /\ \E x, y \in DOMAIN result.value : Overlaps(x, y) # None

\* C2: in every assignment that solve() returns no word is assigned to two
\* different variables, also when both domains hold the word.
C2_NoWordTwice ==
    Returned =>
        \A x, y \in DOMAIN result.value :
            result.value[x] = result.value[y] => x = y

\* An assignment was returned although two variables still had a common
\* word in their domains.
C2_Witness ==
    /\ Returned
    /\ \E x, y \in DOMAIN result.value : x # y /\ domains[x] \cap domains[y] # {}

\* C3: solve() fails only when there is no solution: when some complete
\* assignment meets the length, overlap and uniqueness constraints, solve()
\* returns an assignment, and at no moment is a word of a solution missing
\* from its variable's domain.
C3_Complete ==
    /\ (pc \in {"done", "raised"} /\ HasSolution) => result.kind = "dict"
    /\ \A a \in Solutions : \A v \in crossword.variables : a[v] \in domains[v]

\* solve() returned an assignment for a puzzle of three slots whose domains
\* ac3 had pruned.
C3_Witness ==
    /\ Returned
    /\ HasSolution
    /\ SomeDomainPruned
    /\ Cardinality(crossword.variables) = 3

\* In a puzzle that has a solution the search gave up its first candidate
\* for the first variable and goes on with the next one.
C3_WitnessDeadEnd ==
    /\ pc = "bt_loop"
    /\ HasSolution
    /\ Len(stack) = 1
    /\ Top.values # <<>>
    /\ Len(Top.values) < Cardinality(domains[Top.var])

\* C4: for an unsatisfiable puzzle solve() returns None as a normal return:
\* no exception, no partial assignment.
C4_UnsatisfiableIsNone ==
    ~HasSolution =>
        /\ pc # "raised"
        /\ pc = "done" => result = PyNone

\* solve() returned None for a puzzle in which every variable has a word of
\* its length.
C4_Witness ==
    /\ pc = "done"
    /\ result = PyNone
    /\ crossword.variables # {}
    /\ \A v \in crossword.variables : WordsOfLength(v) # {}

\* solve() returned None for a word list that holds no word of some
\* variable's length.
C4_WitnessNoWordOfLength ==
    /\ pc = "done"
    /\ result = PyNone
    /\ crossword.words # {}
    /\ \E v \in crossword.variables : WordsOfLength(v) = {}

\* C5 as stated: once ac3 has returned False inside solve(), backtrack is not
\* invoked.
C5_NoBacktrackAfterFalse ==
    (caller = "solve" /\ last.op = "ac3" /\ last.ret = "False") =>
        pc \notin SearchPositions

\* C5 amended: once ac3 has returned False inside solve(), solve() returns
\* None; backtrack({}) is invoked, but it makes no tentative assignment and
\* no recursive call and raises nothing.
C5_FalseEndsInNone ==
    (caller = "solve" /\ last.op = "ac3" /\ last.ret = "False") =>
        /\ assignment = EmptyAssignment
        /\ Len(stack) <= 1
        /\ pc \notin {"bt_check", "raised"}
        /\ pc = "done" => result = PyNone

\* solve() returned after ac3 had returned False while another variable
\* still had words.
C5_Witness ==
    /\ pc = "done"
    /\ last.op = "ac3"
    /\ last.ret = "False"
    /\ \E v \in crossword.variables : domains[v] # {}

\* C7: domains only shrink, and only propagation shrinks them: no step of
\* solve() adds a word to a domain, and no step of the search changes one.
C7_DomainsShrink ==
    [][ /\ DOMAIN domains' = DOMAIN domains
        /\ \A v \in DOMAIN domains : domains'[v] \subseteq domains[v]
        /\ pc \in SearchPositions => domains' = domains ]_vars

\* The search ran to an assignment over domains that ac3 had pruned.
C7_Witness ==
    /\ Returned
    /\ SomeDomainPruned
    /\ last.op = "ac3"
    /\ \E v \in crossword.variables : domains[v] # crossword.words

----------------------------------------------------------------------------
(* Properties of revise and ac3, under SpecOps *)

\* The step is a call revise(x, y) that returns.
ReviseStep(x, y) ==
    /\ pc = "idle"
    /\ pc' = "idle"
    /\ last'.op = "revise"
    /\ last'.args = <<x, y>>

\* Every word of x's domain has a word in y's domain that agrees with it at
\* the overlap of x and y.
ArcConsistent(x, y) ==
    \A word_x \in domains[x] : \E word_y \in domains[y] :
        /\ Overlaps(x, y)[1] <= Len(word_x)
        /\ Overlaps(x, y)[2] <= Len(word_y)
        /\ word_x[Overlaps(x, y)[1]] = word_y[Overlaps(x, y)[2]]

GloballyArcConsistent ==
    \A x, y \in crossword.variables : Overlaps(x, y) # None => ArcConsistent(x, y)

\* The client's last call was ac3 and it has returned `value`.
Ac3Returned(value) == pc = "idle" /\ last.op = "ac3" /\ last.ret = value

\* C6 as stated: a run of ac3() that directly follows a run of ac3() changes
\* no domain, whatever the first run returned.
C6_SecondRunChangesNothing ==
    [][ (pc = "ac3" /\ last.prior # "none") => domains' = domains ]_vars

\* C6 amended: a run of ac3() that directly follows a run of ac3() that
\* returned True changes no domain and returns True.
C6_SecondRunAfterTrue ==
    [][ (pc = "ac3" /\ last.prior = "True") =>
            (domains' = domains /\ last'.ret # "False") ]_vars

\* A second run of ac3() has returned after a first one that returned True
\* and had left pruned domains.
C6_Witness ==
    /\ Ac3Returned("True")
    /\ last.prior = "True"
    /\ SomeDomainPruned

\* C8: revise(x, y) on overlapping variables leaves in x's domain exactly the
\* words that have a support in y's domain, changes no other domain, and
\* returns True exactly when it removed a word.
C8_ReviseExact ==
    [][ \A x, y \in crossword.variables :
          (ReviseStep(x, y) /\ Overlaps(x, y) # None) =>
            /\ domains'[x] =
                 {w \in domains[x] : \E v \in domains[y] :
                                        w[Overlaps(x, y)[1]] = v[Overlaps(x, y)[2]]}
            /\ \A z \in crossword.variables \ {x} : domains'[z] = domains[z]
            /\ (last'.ret = "True") <=> (domains'[x] # domains[x]) ]_vars

\* revise(x, y) on overlapping variables returned True and left words in x's
\* domain: it removed some words and kept others.
C8_Witness ==
    /\ pc = "idle"
    /\ last.op = "revise"
    /\ last.ret = "True"
    /\ Overlaps(last.args[1], last.args[2]) # None
    /\ domains[last.args[1]] # {}
    /\ domains[last.args[2]] # {}

\* C9: revise(x, y) on variables that do not overlap returns False and
\* changes no domain.
C9_ReviseNoOverlap ==
    [][ \A x, y \in crossword.variables :
          (ReviseStep(x, y) /\ Overlaps(x, y) = None) =>
            (last'.ret = "False" /\ domains' = domains) ]_vars

\* revise(x, y) returned for two different variables that do not overlap,
\* with words in x's domain and none in y's.
C9_Witness ==
    /\ pc = "idle"
    /\ last.op = "revise"
    /\ last.args[1] # last.args[2]
    /\ Overlaps(last.args[1], last.args[2]) = None
    /\ domains[last.args[1]] # {}
    /\ domains[last.args[2]] = {}

\* C10 as stated: whenever ac3 returns True, with its own arc list or with a
\* list of the caller, every arc between neighbours is consistent.
C10_TrueMeansArcConsistent ==
    Ac3Returned("True") => GloballyArcConsistent

\* C10 amended: whenever ac3() returns True for the worklist that it builds
\* itself from all arcs between neighbours, every arc between neighbours is
\* consistent.
C10_DefaultTrueMeansArcConsistent ==
    (Ac3Returned("True") /\ last.default) => GloballyArcConsistent

\* ac3() returned True leaving pruned domains.
C10_Witness ==
    /\ Ac3Returned("True")
    /\ last.default
    /\ SomeDomainPruned

\* The program is about to run one iteration of ac3's loop.
Ac3Iteration == pc = "ac3" /\ queue # <<>>

\* C11: when the revise(x, y) of an iteration of ac3 empties x's domain, ac3
\* returns False in that iteration: the arc is popped and nothing is appended
\* to the worklist; and whenever ac3 returns False some domain is empty.
C11_EmptyDomainEndsRun ==
    [][ /\ ( /\ Ac3Iteration
             /\ domains[Head(queue)[1]] # {}
             /\ domains'[Head(queue)[1]] = {} ) =>
                 /\ pc' # "ac3"
                 /\ last'.ret = "False"
                 /\ queue' = Tail(queue)
        /\ (pc = "ac3" /\ last'.ret = "False") =>
                 \E v \in crossword.variables : domains'[v] = {} ]_vars

\* ac3 returned False with arcs still in its worklist and words still in
\* another domain.
C11_Witness ==
    /\ Ac3Returned("False")
    /\ queue # <<>>
    /\ \E v \in crossword.variables : domains[v] # {}

\* What revise(x, y) leaves of x's domain.
RevisedDomain(x, y) ==
    IF Overlaps(x, y) = None THEN domains[x]
    ELSE {w \in domains[x] :
             \E v \in domains[y] : w[Overlaps(x, y)[1]] = v[Overlaps(x, y)[2]]}

\* The arcs that the step put behind the worklist it found, less the popped
\* arc.
Appended == SubSeq(queue', Len(queue), Len(queue'))

\* C16: ac3 works first in, first out: every iteration revises the arc at
\* the head of the worklist, the oldest, and no other; the arcs behind it keep
\* their places in front of whatever the iteration appends.
C16_Fifo ==
    [][ (Ac3Iteration /\ pc' # "raised") =>
          LET x == Head(queue)[1]
              y == Head(queue)[2]
          IN  /\ domains'[x] = RevisedDomain(x, y)
              /\ \A z \in crossword.variables \ {x} : domains'[z] = domains[z]
              /\ Len(queue') >= Len(queue) - 1
              /\ SubSeq(queue', 1, Len(queue) - 1) = Tail(queue) ]_vars

\* In a run of ac3() the arc at the head of the worklist is queued a second
\* time behind it: an arc of the initial list waits in front of its
\* re-enqueued copy.
C16_Witness ==
    /\ pc = "ac3"
    /\ last.default
    /\ \E k \in 2..Len(queue) : queue[k] = Head(queue)

\* C17: an iteration of ac3 whose revise(x, y) removed a word and left one
\* appends exactly one arc (z, x) for every neighbour z of x but y, whether
\* or not (z, x) is queued already, and never (y, x); an iteration whose
\* revise removed nothing appends nothing.
C17_Requeue ==
    [][ (Ac3Iteration /\ pc' # "raised") =>
          LET x == Head(queue)[1]
              y == Head(queue)[2]
          IN  /\ (domains'[x] # domains[x] /\ domains'[x] # {}) =>
                    /\ Range(Appended) = {<<z, x>> : z \in Neighbors(x) \ {y}}
                    /\ Len(Appended) = Cardinality(Neighbors(x) \ {y})
                    /\ <<y, x>> \notin Range(Appended)
              /\ domains' = domains => queue' = Tail(queue) ]_vars

\* In a run of ac3() the arc appended last was in the worklist already.
C17_Witness ==
    /\ pc = "ac3"
    /\ last.default
    /\ \E k \in 1..(Len(queue) - 1) : queue[k] = queue[Len(queue)]

\* C18: every run of ac3, on its own arc list or a caller's, ends: it
\* returns True with the worklist empty or False with a domain empty; and
\* the worklist does not get shorter only in an iteration that removed a
\* word from a domain.
C18_Ac3Terminates ==
    /\ (pc = "ac3") ~>
          \/ Ac3Returned("True") /\ queue = <<>>
          \/ Ac3Returned("False") /\ \E v \in crossword.variables : domains[v] = {}
    /\ [][ (Ac3Iteration /\ Len(queue') >= Len(queue)) =>
              \E v \in crossword.variables :
                  domains'[v] # domains[v] /\ domains'[v] \subseteq domains[v] ]_vars

\* The one run of ac3() removed words from the domain of a variable with two
\* neighbours, so it appended an arc to its worklist, and it ended with True
\* and the worklist empty.
C18_Witness ==
    /\ Ac3Returned("True")
    /\ queue = <<>>
    /\ last.default
    /\ \E v \in crossword.variables :
          /\ Cardinality(Neighbors(v)) >= 2
          /\ domains[v] # {}
          /\ domains[v] # WordsOfLength(v)

----------------------------------------------------------------------------
(* Further properties of solve(), under Spec *)

\* C12: every assignment that solve() returns gives every variable a word of
\* the word list that has the variable's length, and every word in the
\* assignment at any moment of the search has its variable's length.
C12_WellFormed ==
    /\ Returned =>
          /\ DOMAIN result.value = crossword.variables
          /\ \A v \in crossword.variables :
                /\ result.value[v] \in crossword.words
                /\ Len(result.value[v]) = v.length
    /\ \A v \in DOMAIN assignment : Len(assignment[v]) = v.length

\* solve() returned an assignment for slots of two lengths and left a word
\* of the list unused.
C12_Witness ==
    /\ Returned
    /\ \E x, y \in DOMAIN result.value : x.length # y.length
    /\ \E word \in crossword.words :
          \A v \in DOMAIN result.value : result.value[v] # word

\* C13: the first step of solve() leaves in every domain exactly the words of
\* the word list that have the variable's length, possibly none, and raises
\* nothing: until ac3 is called the program is at its start or has filtered.
C13_NodeConsistentExact ==
    /\ pc = "start" => \A v \in crossword.variables : domains[v] = crossword.words
    /\ pc = "solve_ac3" =>
          \A v \in crossword.variables : domains[v] = WordsOfLength(v)
    /\ last.op = "none" => pc \in {"start", "solve_ac3"}

\* The filtering removed every word from one domain and left words in
\* another.
C13_Witness ==
    /\ pc = "solve_ac3"
    /\ \E v \in crossword.variables : domains[v] = {}
    /\ \E v \in crossword.variables : domains[v] # {}

\* C14: for a puzzle without variables solve() returns the empty assignment,
\* which main does not report as "No solution."; no variable is selected, so
\* backtrack never enters its loop, and nothing is raised.
C14_EmptyPuzzle ==
    crossword.variables = {} =>
        /\ stack = <<>>
        /\ assignment = EmptyAssignment
        /\ pc \notin {"bt_loop", "bt_check", "raised"}
        /\ pc = "done" =>
              /\ result = PyDict(EmptyAssignment)
              /\ ~ReportsNoSolution(result)

\* solve() returned for a puzzle without variables and with words.
C14_Witness ==
    /\ pc = "done"
    /\ crossword.variables = {}
    /\ crossword.words # {}
    /\ result.kind = "dict"

----------------------------------------------------------------------------
(* Properties of consistent, under SpecConsistent *)

\* Every assigned word has its variable's length.
LengthsMatch(a) == \A v \in DOMAIN a : Len(a[v]) = v.length

\* Every two assigned overlapping variables have the same letter at their
\* overlap.
NeighboursAgree(a) ==
    \A x, y \in DOMAIN a :
        Overlaps(x, y) # None =>
            /\ Overlaps(x, y)[1] <= Len(a[x])
            /\ Overlaps(x, y)[2] <= Len(a[y])
            /\ a[x][Overlaps(x, y)[1]] = a[y][Overlaps(x, y)[2]]

\* No word is assigned to two variables.
NoWordTwice(a) == \A x, y \in DOMAIN a : a[x] = a[y] => x = y

\* C15 as stated: for every dict of words for some of the variables,
\* consistent(assignment) raises nothing and returns True exactly when the
\* lengths match, the neighbours agree and no word is assigned twice.
C15_ConsistentTotal ==
    [][ pc = "consistent" =>
          /\ pc' # "raised"
          /\ (last'.ret = "True") <=>
                 /\ LengthsMatch(assignment)
                 /\ NeighboursAgree(assignment)
                 /\ NoWordTwice(assignment) ]_vars

\* C19: every call of select_unassigned_variable, made by backtrack with an
\* incomplete assignment, returns a variable that the assignment does not
\* hold and whose domain is no larger than that of any other such variable;
\* it does not raise.  (A frame keeps the assignment its call was entered
\* with; the search changes no domain.)
C19_MinimumRemainingValues ==
    /\ \A k \in DOMAIN stack :
          LET unassigned == crossword.variables \ DOMAIN stack[k].entry
          IN  /\ stack[k].var \in unassigned
              /\ \A other \in unassigned :
                    Cardinality(domains[stack[k].var]) <= Cardinality(domains[other])
    /\ result # [kind |-> "ValueError"]

\* A variable was selected for a non-empty assignment while another
\* unassigned variable had a larger domain.
C19_Witness ==
    \E k \in DOMAIN stack :
        /\ stack[k].entry # EmptyAssignment
        /\ \E other \in crossword.variables \ DOMAIN stack[k].entry :
              Cardinality(domains[other]) > Cardinality(domains[stack[k].var])

\* The number of var's neighbours that have the word in their domain.
NeighboursHolding(var, word) ==
    Cardinality({n \in crossword.variables :
                    n # var /\ Overlaps(n, var) # None /\ word \in domains[n]})

Extends(b, a) ==
    /\ DOMAIN a \subseteq DOMAIN b
    /\ \A v \in DOMAIN a : b[v] = a[v]

\* C21: between two candidates the assignment is the one the call was
\* entered with; a call that returns None leaves exactly the entries it was
\* entered with; and an assignment that a call returns holds, unchanged,
\* every entry that the call and each of its callers was entered with.
C21_Undo ==
    /\ [](pc = "bt_loop" => assignment = Top.entry)
    /\ []((pc = "bt_return" /\ retval.kind = "dict") =>
              /\ retval.value = assignment
              /\ \A k \in DOMAIN stack : Extends(retval.value, stack[k].entry))
    /\ [][ (pc = "bt_loop" /\ pc' = "bt_return") =>
              (retval' = PyNone /\ assignment' = Top.entry) ]_vars
    /\ [][ (pc = "bt_return" /\ pc' = "done" /\ retval = PyNone) =>
              assignment' = EmptyAssignment ]_vars

\* A nested call of backtrack has returned None to a caller that had
\* assigned its variable, in a puzzle that has a solution.
C21_Witness ==
    /\ pc = "bt_return"
    /\ retval = PyNone
    /\ stack # <<>>
    /\ Top.var \in DOMAIN assignment
    /\ HasSolution

----------------------------------------------------------------------------
(* Empty domains and the caller's arc list in ac3, under SpecOps *)

\* C24: ac3 returns False only in an iteration whose revise(x, y) removed
\* the last words of x's domain, which held words before; an iteration on an
\* arc whose x had no words left before it does not end the run; and with an
\* empty worklist ac3 returns True, whatever the domains hold.
C24_FalseOnlyAfterEmptying ==
    [][ /\ (pc = "ac3" /\ last'.ret = "False") =>
               /\ queue # <<>>
               /\ domains[Head(queue)[1]] # {}
               /\ domains'[Head(queue)[1]] = {}
               /\ RevisedDomain(Head(queue)[1], Head(queue)[2]) = {}
               /\ \A v \in crossword.variables \ {Head(queue)[1]} :
                      domains'[v] = domains[v]
        /\ (Ac3Iteration /\ domains[Head(queue)[1]] = {} /\ pc' # "raised") =>
               /\ pc' = "ac3"
               /\ domains' = domains
               /\ queue' = Tail(queue)
        /\ (pc = "ac3" /\ queue = <<>>) => last'.ret = "True" ]_vars

\* ac3() returned True although it revised arcs between variables that have
\* no word left.
C24_Witness ==
    /\ Ac3Returned("True")
    /\ last.default
    /\ \E v \in crossword.variables : Neighbors(v) # {} /\ domains[v] = {}

\* The client's last call was ac3(arcs), with a list of its own.
Ac3OfCallerList == last.op = "ac3" /\ ~last.default

\* C26: ac3(arcs) works on the caller's list itself.  Every iteration pops
\* the first arc from that list and appends to it; when ac3(arcs) has
\* returned True the caller's list is empty; and when it returns False the
\* caller's list holds the arcs that were behind the arc of the last
\* iteration, and no other.
C26_CallerListIsWorklist ==
    /\ []((Ac3Returned("True") /\ ~last.default) => queue = <<>>)
    /\ [][ /\ (pc = "ac3" /\ Ac3OfCallerList /\ last'.ret = "False") =>
                  queue' = Tail(queue)
           /\ (Ac3Iteration /\ Ac3OfCallerList /\ pc' = "ac3") =>
                  /\ Len(queue') >= Len(queue) - 1
                  /\ SubSeq(queue', 1, Len(queue) - 1) = Tail(queue) ]_vars

\* ac3(arcs) returned False and left arcs in the caller's list.
C26_Witness ==
    /\ Ac3Returned("False")
    /\ ~last.default
    /\ queue # <<>>

----------------------------------------------------------------------------
(* The search over an empty domain, under Spec *)

\* The number of active calls of backtrack: those inside their for loop and
\* the one that was just entered.
Depth == Len(stack) + (IF pc = "bt_enter" THEN 1 ELSE 0)

\* Some variable has no word left.
SomeDomainEmpty == \E v \in crossword.variables : domains[v] = {}

\* C25: when some domain is empty as backtrack({}) is called, the outermost
\* call selects a variable with an empty domain, iterates over no value and
\* returns None: nothing is ever assigned, no call is nested and nothing is
\* raised, and solve() returns None; and some domain is empty whenever ac3
\* returned False.
C25_EmptyDomainFailsAtOnce ==
    /\ (last.op = "ac3" /\ last.ret = "False") => SomeDomainEmpty
    /\ (pc \in SearchPositions \cup {"done"} /\ SomeDomainEmpty) =>
          /\ assignment = EmptyAssignment
          /\ pc # "bt_check"
          /\ Depth <= 1
          /\ stack # <<>> =>
                /\ domains[Top.var] = {}
                /\ Top.values = <<>>
          /\ pc = "bt_return" => retval = PyNone
          /\ pc = "done" => ReportsNoSolution(result)

\* The outermost call is in its for loop over the empty domain of the variable
\* it selected, while another variable has words.
C25_Witness ==
    /\ pc = "bt_loop"
    /\ domains[Top.var] = {}
    /\ \E v \in crossword.variables : domains[v] # {}

----------------------------------------------------------------------------
(* Termination of the search, under SpecFair *)

\* C22: the search ends, solve() returning an assignment or None; at every
\* moment at most (number of variables + 1) calls of backtrack are active;
\* the outermost call is entered with no variable assigned and every nested
\* call with exactly the variable of its caller added.
C22_SearchTerminates ==
    /\ (pc \in SearchPositions) ~> (pc = "done" /\ result.kind \in {"dict", "None"})
    /\ [](Depth <= Cardinality(crossword.variables) + 1)
    /\ [](\A k \in DOMAIN stack :
            /\ stack[k].var \notin DOMAIN stack[k].entry
            /\ DOMAIN stack[k].entry = {stack[m].var : m \in 1..(k - 1)})
    /\ [](pc = "bt_enter" =>
            DOMAIN assignment = {stack[m].var : m \in DOMAIN stack})

\* The deepest call: every variable of a three-slot puzzle is assigned and
\* one more call of backtrack was entered.
C22_Witness ==
    /\ pc = "bt_enter"
    /\ Cardinality(crossword.variables) = 3
    /\ Depth = 4

----------------------------------------------------------------------------
(* Two runs on the same puzzle, under SpecTwice *)

\* C23: a run of solve() on a structure and word list that an earlier run
\* has solved returns what the earlier run returned.
C23_SameAssignment ==
    [][ (pc = "bt_return" /\ pc' = "done" /\ result # Pending) =>
            result' = result ]_vars

====
